---------------------------- MODULE Spec2Model ----------------------------
(***************************************************************************)
(* Battery pack design calculator (src/app.py): candidate filtering and    *)
(* ordering, series/parallel sizing, the six-orientation fit check, the    *)
(* greedy selection loop and the reported pack specification.              *)
(*                                                                         *)
(* Fixed-point representation of the script's floats:                      *)
(*   nominal voltage      in mV      (V   * 1000)                          *)
(*   cell capacity        in cAh     (Ah  * 100)                           *)
(*   required energy      in Wh      (kWh * 1000)                          *)
(*   dimensions           in mm                                            *)
(*   values rounded by round(x, 2) are held in hundredths                  *)
(* A table field is <<n>> when it parses as the number n and <<>> when it  *)
(* is missing or not numeric (pd.to_numeric(..., errors='coerce') = NaN).  *)
(***************************************************************************)
EXTENDS Integers, Sequences, FiniteSets, TLC

VARIABLES
    df,                  \* the loaded cell table (sequence of rows)
    application_type,    \* "EV" | "Stationary Storage"
    expected_voltage,    \* V (integer widget, min 12)
    energy_required_kwh, \* held in Wh
    cell_chemistry,      \* "Any" | "LFP" | "NMC" | "LTO"
    cell_type_input,     \* text, a sequence of characters
    avail_l, avail_b, avail_h,
    candidate_cells,     \* sequence of rows
    idx,                 \* position of the selection loop in candidate_cells
    best_cell,           \* None or a row
    fit_dims,            \* None or a triple
    series, parallel, total_cells,
    pack_specs,          \* None or the reported record
    evaluated,           \* history: positions on which can_fit has been called
    outcome,             \* "running" | "selected" | "no_candidates" | "no_fit"
    pc

vars == <<df, application_type, expected_voltage, energy_required_kwh,
          cell_chemistry, cell_type_input, avail_l, avail_b, avail_h,
          candidate_cells, idx, best_cell, fit_dims, series, parallel,
          total_cells, pack_specs, evaluated, outcome, pc>>

\* Python's None; also the value of a name not yet bound.
None == <<>>

\* Widest table the model loads.
MaxRows == 2

\* Largest expected voltage the sizing specification draws.
MaxVoltage == 72

\* Largest series or parallel count the packing specification draws (besides
\* the 15 of the worked example).
MaxCount == 2

\* st.sidebar.number_input("Expected Voltage (V)", min_value=12)
MinVoltage == 12

\* tolerance = 5  (mm on each side)
tolerance == 5

---------------------------------------------------------------------------
(* Numeric helpers *)

\* np.ceil(a / b) as an integer, b # 0, either sign.
CeilDiv(a, b) ==
    LET n == IF b < 0 THEN -a ELSE a
        d == IF b < 0 THEN -b ELSE b
    IN  -((-n) \div d)

\* pd.to_numeric(x, errors='coerce') followed by "0 if pd.isna(x) else x".
Coerce(raw) == IF raw = <<>> THEN 0 ELSE raw[1]

\* round(x, 2) for x held in units of 1/scale (scale a multiple of 100); the
\* result is in hundredths.  A decimal tie is resolved by the binary value of
\* the float, which the fixed-point value does not determine: both neighbours.
Round2(x, scale) ==
    LET q  == scale \div 100
        lo == x \div q
        r  == x - lo * q
    IN  IF 2 * r < q THEN {lo}
        ELSE IF 2 * r > q THEN {lo + 1}
        ELSE {lo, lo + 1}

\* Smallest element of a non-empty set of integers.
Min(S) == CHOOSE m \in S : \A n \in S : m <= n

---------------------------------------------------------------------------
(* The cell table *)

\* One row of Pack_calculations.csv, with the columns the script reads.
Row(name, chem, shape, nv, cap, cyc, dl, h, third, whkg) ==
    [Cell_Name |-> name, Chemistry |-> chem, Shape |-> shape,
     Nominal_Voltage |-> nv, Cell_Capacity |-> cap, Cycle_life |-> cyc,
     Diameter_Length |-> dl, Cell_height |-> h, Third_dimension |-> third,
     Wh_per_kg |-> whkg]

\* Rows a table may hold: sound cells of both shapes, and rows with missing,
\* zero or negative fields.
SampleRows ==
    { Row(<<"L","f">>, "LFP", "Cylindrical", <<3203>>,  <<10>>,    <<2000>>, <<21>>,  <<70>>,  <<>>,    <<12000>>),
      Row(<<"L","P">>, "LFP", "Prismatic",   <<3200>>,  <<10000>>, <<4000>>, <<26>>,  <<100>>, <<130>>, <<11000>>),
      Row(<<"N","P">>, "NMC", "Prismatic",   <<3650>>,  <<5000>>,  <<>>,     <<500>>, <<90>>,  <<30>>,  <<>>),
      Row(<<"l","n">>, "LFP", "Cylindrical", <<>>,      <<480>>,   <<5000>>, <<21>>,  <<70>>,  <<>>,    <<10000>>),
      Row(<<"n","f">>, "NMC", "Cylindrical", <<-3200>>, <<-480>>,  <<6000>>, <<21>>,  <<70>>,  <<>>,    <<10000>>),
      Row(<<"F","m">>, "LFP", "Cylindrical", <<3200>>,  <<480>>,   <<3000>>, <<>>,    <<70>>,  <<>>,    <<10000>>) }

\* Tables load_data accepts: not empty.
Tables == UNION { [1..n -> SampleRows] : n \in 1..MaxRows }

---------------------------------------------------------------------------
(* Candidate filtering and ordering *)

\* Lower-casing of one character (case=False).
Lower(c) ==
    CASE c = "L" -> "l"
      [] c = "F" -> "f"
      [] c = "N" -> "n"
      [] c = "P" -> "p"
      [] c = "M" -> "m"
      [] OTHER   -> c

LowerSeq(s) == [k \in 1..Len(s) |-> Lower(s[k])]

\* Series.str.contains(text, case=False) on one name, for a text without
\* regular-expression metacharacters: a case-insensitive substring test.
NameContains(name, text) ==
    LET n == LowerSeq(name)
        t == LowerSeq(text)
    IN  \E k \in 1..(Len(n) - Len(t) + 1) : SubSeq(n, k, k + Len(t) - 1) = t

\* candidate_cells[candidate_cells['Chemistry'] == cell_chemistry]
ByChemistry(table, chem) ==
    IF chem # "Any"
    THEN SelectSeq(table, LAMBDA r : r.Chemistry = chem)
    ELSE table

\* Mutant of FilterCandidates: the chemistry filter applied to the
\* name-matched rows as well.
FilterCandidates_ChemistryAlways(table, text, chem) ==
    IF text # <<>>
    THEN LET named == SelectSeq(table, LAMBDA r : NameContains(r.Cell_Name, text))
         IN  IF named = <<>> THEN ByChemistry(table, chem) ELSE ByChemistry(named, chem)
    ELSE ByChemistry(table, chem)

\* The candidate set after the name and chemistry filters.
FilterCandidates(table, text, chem) ==
    IF text # <<>>
    THEN LET named == SelectSeq(table, LAMBDA r : NameContains(r.Cell_Name, text))
         IN  IF named = <<>> THEN ByChemistry(table, chem) ELSE named
    ELSE ByChemistry(table, chem)

\* candidate_cells['Cycle life at 1C'] = pd.to_numeric(...).fillna(0)
NumericCycleLife(cands) ==
    [k \in 1..Len(cands) |-> [cands[k] EXCEPT !.Cycle_life = <<Coerce(@)>>]]

\* Mutant of SortedOrders: ascending=False left out.
SortedOrders_Ascending(cands) ==
    LET n     == Len(cands)
        perms == {p \in [1..n -> 1..n] : \A a, b \in 1..n : a # b => p[a] # p[b]}
        by(p) == [k \in 1..n |-> cands[p[k]]]
    IN  { by(p) : p \in {q \in perms :
            \A a, b \in 1..n :
                a < b => Coerce(cands[q[a]].Cycle_life) <= Coerce(cands[q[b]].Cycle_life)} }

\* Orders sort_values(by="Cycle life at 1C", ascending=False) can produce:
\* descending cycle life; the default sort is not stable, so rows with equal
\* cycle life come in any order.
SortedOrders(cands) ==
    LET n     == Len(cands)
        perms == {p \in [1..n -> 1..n] : \A a, b \in 1..n : a # b => p[a] # p[b]}
        by(p) == [k \in 1..n |-> cands[p[k]]]
    IN  { by(p) : p \in {q \in perms :
            \A a, b \in 1..n :
                a < b => Coerce(cands[q[a]].Cycle_life) >= Coerce(cands[q[b]].Cycle_life)} }

---------------------------------------------------------------------------
(* Packing function *)

usable_l == avail_l - 2 * tolerance
usable_b == avail_b - 2 * tolerance
usable_h == avail_h - 2 * tolerance

\* Mutant of volume_configurations: the last orientation of each list
\* repeats the one before it.
volume_configurations_Repeated(cell, s, p) ==
    LET dl    == Coerce(cell.Diameter_Length)
        h     == Coerce(cell.Cell_height)
        third == Coerce(cell.Third_dimension)
    IN  IF cell.Shape = "Cylindrical"
        THEN << <<dl * s, dl * p, h>>,
                <<dl * p, dl * s, h>>,
                <<h, dl * s, dl * p>>,
                <<dl * s, h, dl * p>>,
                <<dl * p, h, dl * s>>,
                <<dl * p, h, dl * s>> >>
        ELSE << <<dl * s, third * p, h>>,
                <<dl * s, h, third * p>>,
                <<third * p, dl * s, h>>,
                <<third * p, h, dl * s>>,
                <<h, dl * s, third * p>>,
                <<h, dl * s, third * p>> >>

\* The hard-coded orientation list of can_fit for the cell's shape.
volume_configurations(cell, s, p) ==
    LET dl    == Coerce(cell.Diameter_Length)
        h     == Coerce(cell.Cell_height)
        third == Coerce(cell.Third_dimension)
    IN  IF cell.Shape = "Cylindrical"
        THEN << <<dl * s, dl * p, h>>,
                <<dl * p, dl * s, h>>,
                <<h, dl * s, dl * p>>,
                <<dl * s, h, dl * p>>,
                <<dl * p, h, dl * s>>,
                <<h, dl * p, dl * s>> >>
        ELSE << <<dl * s, third * p, h>>,
                <<dl * s, h, third * p>>,
                <<third * p, dl * s, h>>,
                <<third * p, h, dl * s>>,
                <<h, dl * s, third * p>>,
                <<h, third * p, dl * s>> >>

\* The test of one orientation against the usable envelope.
ConfigFits(config, ul, ub, uh) ==
    config[1] <= ul /\ config[2] <= ub /\ config[3] <= uh

\* Mutant of FirstFit: the loop does not return at the first fit and keeps
\* the last one.
FirstFit_Last(configs, ul, ub, uh) ==
    LET fitting == {k \in 1..Len(configs) : ConfigFits(configs[k], ul, ub, uh)}
    IN  IF fitting = {} THEN None ELSE configs[-Min({-k : k \in fitting})]

\* The for-loop of can_fit: the first listed orientation that fits, or None.
FirstFit(configs, ul, ub, uh) ==
    LET fitting == {k \in 1..Len(configs) : ConfigFits(configs[k], ul, ub, uh)}
    IN  IF fitting = {} THEN None ELSE configs[Min(fitting)]

can_fit(cell, s, p, ul, ub, uh) ==
    FirstFit(volume_configurations(cell, s, p), ul, ub, uh)

\* "if fit:" -- truth value of None or of a tuple.
Truthy(t) == Len(t) > 0

---------------------------------------------------------------------------
(* Sizing of one candidate *)

\* cell_wh = nominal_voltage * cell_capacity / 1000; only its sign is used,
\* and the positive divisor does not change it.
cell_wh(cell) == Coerce(cell.Nominal_Voltage) * Coerce(cell.Cell_Capacity)

\* "if n <= 0: n = 1"
AtLeastOne(n) == IF n <= 0 THEN 1 ELSE n

\* Float division of the model's inputs: the pairs <<a, b>> whose exact
\* quotient a / b is an integer while the binary64 quotient of the parsed
\* floats lies just above it (69 / 2.3 evaluates to 30.000000000000004).  On
\* every other pair of the input sets below np.ceil of the binary64 quotient
\* is the ceiling of the exact quotient.
QuotientAboveInteger == { <<69000, 2300>> }

\* np.ceil(a / b) as the script evaluates it, in floating point.
FloatCeilDiv(a, b) ==
    IF <<a, b>> \in QuotientAboveInteger THEN CeilDiv(a, b) + 1 ELSE CeilDiv(a, b)

\* parallel = int(np.ceil(energy_required_kwh/(expected_voltage*cell_capacity)))
\* energy/1000 kWh over voltage * capacity/100 Ah.
ParallelCount(energy, voltage, cell) ==
    AtLeastOne(FloatCeilDiv(energy, 10 * voltage * Coerce(cell.Cell_Capacity)))

\* series = int(np.ceil(expected_voltage / nominal_voltage))
SeriesCount(voltage, cell) ==
    AtLeastOne(FloatCeilDiv(voltage * 1000, Coerce(cell.Nominal_Voltage)))

---------------------------------------------------------------------------
(* User inputs *)

\* energy_required_kwh = (km_expected * 33) / 1000
EnergyEV(km_expected) == km_expected * 33

\* energy_required_kwh = (hours_backup * total_watt_load) / 1000
EnergyStationary(hours_backup, total_watt_load) == hours_backup * total_watt_load

\* Application type with its load inputs, as the energy they require.
EnergyInputs ==
    { <<"EV", EnergyEV(km)>> : km \in {10} } \cup
    { <<"Stationary Storage", EnergyStationary(h, w)>> : h \in {5}, w \in {1000} }

VoltageInputs == {MinVoltage, 48}

ChemistryInputs == {"Any", "LFP", "NMC", "LTO"}

\* Cell-type texts: blank, matching one name, matching several, matching none.
CellTypeInputs == { <<>>, <<"l","f">>, <<"P">>, <<"x">> }

\* Available length, breadth and height (each widget has min_value=100).
AvailInputs == {110, 410}

---------------------------------------------------------------------------
(* The script, top to bottom *)

\* State before the candidate filter runs: nothing selected, nothing sized.
NothingSelected ==
    /\ best_cell = None
    /\ fit_dims = None
    /\ pack_specs = None
    /\ series = 0
    /\ parallel = 0
    /\ total_cells = 0
    /\ evaluated = <<>>
    /\ outcome = "running"

Init ==
    /\ df \in Tables
    /\ \E a \in EnergyInputs :
          application_type = a[1] /\ energy_required_kwh = a[2]
    /\ expected_voltage \in VoltageInputs
    /\ cell_chemistry \in ChemistryInputs
    /\ cell_type_input \in CellTypeInputs
    /\ avail_l \in AvailInputs
    /\ avail_b \in AvailInputs
    /\ avail_h \in AvailInputs
    /\ candidate_cells = <<>>
    /\ idx = 0
    /\ NothingSelected
    /\ pc = "filter"

inputs == <<df, application_type, expected_voltage, energy_required_kwh,
            cell_chemistry, cell_type_input, avail_l, avail_b, avail_h>>

selection == <<best_cell, fit_dims, series, parallel, total_cells, evaluated>>

\* Filter Candidates
Filter ==
    /\ pc = "filter"
    /\ candidate_cells' = FilterCandidates(df, cell_type_input, cell_chemistry)
    /\ pc' = "check"
    /\ UNCHANGED <<inputs, selection, idx, pack_specs, outcome>>

\* Mutant of StopNoCandidates: the error is shown and st.stop() left out.
StopNoCandidates_Continues ==
    /\ pc = "check"
    /\ candidate_cells = <<>>
    /\ outcome' = "no_candidates"
    /\ idx' = 1
    /\ pc' = "loop"
    /\ UNCHANGED <<inputs, selection, candidate_cells, pack_specs>>

\* if candidate_cells.empty: st.error(...); st.stop()
StopNoCandidates ==
    /\ pc = "check"
    /\ candidate_cells = <<>>
    /\ outcome' = "no_candidates"
    /\ pc' = "stopped"
    /\ UNCHANGED <<inputs, selection, candidate_cells, idx, pack_specs>>

\* Cycle life made numeric, candidates sorted, the loop entered.
Sort ==
    /\ pc = "check"
    /\ candidate_cells # <<>>
    /\ candidate_cells' \in SortedOrders(NumericCycleLife(candidate_cells))
    /\ idx' = 1
    /\ pc' = "loop"
    /\ UNCHANGED <<inputs, selection, pack_specs, outcome>>

\* The row of the current loop iteration.
cell == candidate_cells[idx]

\* if cell_wh <= 0: continue
LoopSkip ==
    /\ pc = "loop"
    /\ idx <= Len(candidate_cells)
    /\ cell_wh(cell) <= 0
    /\ idx' = idx + 1
    /\ UNCHANGED <<inputs, selection, candidate_cells, pack_specs, outcome, pc>>

\* The sizing of the current row, shared by the two outcomes of can_fit.
Sized ==
    /\ pc = "loop"
    /\ idx <= Len(candidate_cells)
    /\ cell_wh(cell) > 0
    /\ parallel' = ParallelCount(energy_required_kwh, expected_voltage, cell)
    /\ series' = SeriesCount(expected_voltage, cell)
    /\ total_cells' = series' * parallel'
    /\ evaluated' = Append(evaluated, idx)

\* can_fit returned None: next row.
LoopReject ==
    /\ Sized
    /\ ~Truthy(can_fit(cell, series', parallel', usable_l, usable_b, usable_h))
    /\ idx' = idx + 1
    /\ UNCHANGED <<inputs, candidate_cells, best_cell, fit_dims, pack_specs,
                   outcome, pc>>

\* can_fit returned an orientation: best_cell and fit_dims set, break.
LoopAccept ==
    /\ Sized
    /\ LET fit == can_fit(cell, series', parallel', usable_l, usable_b, usable_h)
       IN  /\ Truthy(fit)
           /\ best_cell' = cell
           /\ fit_dims' = fit
    /\ pc' = "report"
    /\ UNCHANGED <<inputs, candidate_cells, idx, pack_specs, outcome>>

\* The rows are exhausted without a break.
LoopExhausted ==
    /\ pc = "loop"
    /\ idx > Len(candidate_cells)
    /\ pc' = "report"
    /\ UNCHANGED <<inputs, selection, candidate_cells, idx, pack_specs, outcome>>

\* Mutant of PackSpecs: pack voltage and capacity take each other's count.
PackSpecs_CountsSwapped ==
    LET nv  == Coerce(best_cell.Nominal_Voltage)
        cap == Coerce(best_cell.Cell_Capacity)
    IN  { [Required_Energy     |-> re,
           Cell_Voltage        |-> nv,
           Cell_Capacity       |-> cap,
           Series              |-> series,
           Parallel            |-> parallel,
           Total_Cells         |-> total_cells,
           Pack_Capacity       |-> pcap,
           Pack_Voltage        |-> pv,
           Pack_Volume         |-> fit_dims,
           Pack_Energy_Density |-> ed,
           Cycle_Life          |-> Coerce(best_cell.Cycle_life)] :
          re   \in Round2(energy_required_kwh, 1000),
          pcap \in Round2(series * cap, 100),
          pv   \in Round2(parallel * nv, 1000),
          ed   \in Round2(Coerce(best_cell.Wh_per_kg), 100) }

\* The pack_specs dictionary of the selected cell.  Dimensions and cycle life
\* are whole numbers here, which int() leaves as they are.
PackSpecs ==
    LET nv  == Coerce(best_cell.Nominal_Voltage)
        cap == Coerce(best_cell.Cell_Capacity)
    IN  { [Required_Energy     |-> re,
           Cell_Voltage        |-> nv,
           Cell_Capacity       |-> cap,
           Series              |-> series,
           Parallel            |-> parallel,
           Total_Cells         |-> total_cells,
           Pack_Capacity       |-> pcap,
           Pack_Voltage        |-> pv,
           Pack_Volume         |-> fit_dims,
           Pack_Energy_Density |-> ed,
           Cycle_Life          |-> Coerce(best_cell.Cycle_life)] :
          re   \in Round2(energy_required_kwh, 1000),
          pcap \in Round2(parallel * cap, 100),
          pv   \in Round2(series * nv, 1000),
          ed   \in Round2(Coerce(best_cell.Wh_per_kg), 100) }

\* if best_cell is not None: the specification is shown.
ReportSelected ==
    /\ pc = "report"
    /\ best_cell # None
    /\ pack_specs' \in PackSpecs
    /\ outcome' = "selected"
    /\ pc' = "done"
    /\ UNCHANGED <<inputs, selection, candidate_cells, idx>>

\* else: st.error("No suitable cell found ...")
ReportNoFit ==
    /\ pc = "report"
    /\ best_cell = None
    /\ outcome' = "no_fit"
    /\ pc' = "done"
    /\ UNCHANGED <<inputs, selection, candidate_cells, idx, pack_specs>>

Next ==
    \/ Filter
    \/ StopNoCandidates
    \/ Sort
    \/ LoopSkip
    \/ LoopReject
    \/ LoopAccept
    \/ LoopExhausted
    \/ ReportSelected
    \/ ReportNoFit

Spec == Init /\ [][Next]_vars

---------------------------------------------------------------------------
(* The selection loop on one candidate, over a wide range of sizing inputs *)

SizingVoltages ==
    { <<>>, <<-3200>>, <<1200>>, <<2300>>, <<3200>>, <<3203>>, <<3600>>,
      <<3650>>, <<3700>>, <<12000>>, <<48000>>, <<70000>> }

SizingCapacities == { <<>>, <<-480>>, <<10>>, <<250>>, <<480>>, <<5000>>, <<10000>> }

SizingRows ==
    { Row(<<"S">>, "LFP", "Cylindrical", nv, cap, <<1000>>, <<21>>, <<70>>, <<>>, <<10000>>) :
        nv \in SizingVoltages, cap \in SizingCapacities }

SizingEnergies ==
    { <<"EV", EnergyEV(km)>> : km \in {1, 10, 150} } \cup
    { <<"Stationary Storage", EnergyStationary(h, w)>> : h \in {5}, w \in {1000} }

InitSizing ==
    /\ \E r \in SizingRows : df = <<r>>
    /\ \E a \in SizingEnergies :
          application_type = a[1] /\ energy_required_kwh = a[2]
    /\ expected_voltage \in MinVoltage..MaxVoltage
    /\ cell_chemistry = "Any"
    /\ cell_type_input = <<>>
    /\ avail_l = 410
    /\ avail_b = 410
    /\ avail_h = 110
    /\ candidate_cells = NumericCycleLife(df)
    /\ idx = 1
    /\ NothingSelected
    /\ pc = "loop"

NextSizing ==
    \/ LoopSkip
    \/ LoopReject
    \/ LoopAccept
    \/ LoopExhausted
    \/ ReportSelected
    \/ ReportNoFit

SpecSizing == InitSizing /\ [][NextSizing]_vars

---------------------------------------------------------------------------
(* can_fit on its own, over a wide range of cells, counts and envelopes *)

PackingRows ==
    { Row(<<"S">>, "LFP", shape, <<3200>>, <<480>>, <<1000>>, dl, h, third, <<10000>>) :
        shape \in {"Cylindrical", "Prismatic"},
        dl    \in { <<>>, <<21>>, <<26>> },
        h     \in { <<70>>, <<100>> },
        third \in { <<>>, <<130>> } }

PackingAvail == {100, 110, 410}

InitPacking ==
    /\ \E r \in PackingRows : df = <<r>>
    /\ application_type = "EV"
    /\ energy_required_kwh = EnergyEV(10)
    /\ expected_voltage = 48
    /\ cell_chemistry = "Any"
    /\ cell_type_input = <<>>
    /\ avail_l \in PackingAvail
    /\ avail_b \in PackingAvail
    /\ avail_h \in PackingAvail
    /\ candidate_cells = NumericCycleLife(df)
    /\ idx = 1
    /\ best_cell = None
    /\ fit_dims = None
    /\ pack_specs = None
    /\ series \in (1..MaxCount) \cup {15}
    /\ parallel \in 1..MaxCount
    /\ total_cells = series * parallel
    /\ evaluated = <<>>
    /\ outcome = "running"
    /\ pc = "call"

\* fit = can_fit(cell, series, parallel, usable_l, usable_b, usable_h)
CallCanFit ==
    /\ pc = "call"
    /\ fit_dims' = can_fit(cell, series, parallel, usable_l, usable_b, usable_h)
    /\ evaluated' = Append(evaluated, idx)
    /\ pc' = "returned"
    /\ UNCHANGED <<inputs, candidate_cells, idx, best_cell, series, parallel,
                   total_cells, pack_specs, outcome>>

NextPacking == CallCanFit

SpecPacking == InitPacking /\ [][NextPacking]_vars

---------------------------------------------------------------------------
(* Properties *)

\* The row the loop sized last, and its coerced voltage and capacity.
SizedCell == candidate_cells[evaluated[Len(evaluated)]]
SizedVoltage == Coerce(SizedCell.Nominal_Voltage)
SizedCapacity == Coerce(SizedCell.Cell_Capacity)

\* The permutations of the three axes.
AxisOrders == {o \in [1..3 -> 1..3] : \A a, b \in 1..3 : a # b => o[a] # o[b]}

\* The pack bounding triple of a cell for given counts.
PackTriple(c, s, p) ==
    IF c.Shape = "Cylindrical"
    THEN <<Coerce(c.Diameter_Length) * s, Coerce(c.Diameter_Length) * p, Coerce(c.Cell_height)>>
    ELSE <<Coerce(c.Diameter_Length) * s, Coerce(c.Third_dimension) * p, Coerce(c.Cell_height)>>

\* A triple lies within the usable envelope, axis by axis.
Within(t) == t[1] <= avail_l - 10 /\ t[2] <= avail_b - 10 /\ t[3] <= avail_h - 10

\* Some axis permutation of the cell's pack triple lies within the envelope.
SomeOrientationFits(c, s, p) ==
    \E o \in AxisOrders :
        LET t == PackTriple(c, s, p) IN Within(<<t[o[1]], t[o[2]], t[o[3]]>>)

\* A candidate the loop would accept: positive cell energy and a fit for
\* the counts the loop computes for it.
Acceptable(c) ==
    /\ Coerce(c.Nominal_Voltage) * Coerce(c.Cell_Capacity) > 0
    /\ SomeOrientationFits(c, SeriesCount(expected_voltage, c),
                           ParallelCount(energy_required_kwh, expected_voltage, c))

\* C1: every accepted configuration of a cell with positive voltage,
\* capacity and dimensions has series * parallel * nominalVoltage * cellCapacity / 1000 >=
\* energy_required_kwh (mV * cAh against Wh: a factor of 100000).
C1_EnergyMet ==
    (best_cell # None /\ Coerce(best_cell.Nominal_Voltage) > 0
                      /\ Coerce(best_cell.Cell_Capacity) > 0
                      /\ Coerce(best_cell.Diameter_Length) > 0)
    => series * parallel * Coerce(best_cell.Nominal_Voltage) * Coerce(best_cell.Cell_Capacity)
          >= energy_required_kwh * 100000

\* C2: for a row with positive nominal voltage and capacity and a target
\* voltage of at least 12, the series count the loop computes reaches the
\* target voltage and is the smallest positive integer that does.
C2_SeriesSmallest ==
    (evaluated # <<>> /\ SizedVoltage > 0 /\ SizedCapacity > 0 /\ expected_voltage >= 12)
    => /\ series >= 1
       /\ series * SizedVoltage >= expected_voltage * 1000
       /\ \A k \in 1..(series - 1) : k * SizedVoltage < expected_voltage * 1000

\* C3: the parallel count the loop computes is
\* max(1, ceil(requiredEnergy * 1000 / (nominalVoltage * capacity * series)));
\* for 48 V, 3.2 V, 100 Ah, 5 kWh: series 15, parallel 2, 30 cells, 200 Ah.
C3_ParallelFormula ==
    (evaluated # <<>> /\ SizedVoltage > 0 /\ SizedCapacity > 0)
    => /\ parallel = AtLeastOne(CeilDiv(energy_required_kwh * 100000,
                                        SizedVoltage * SizedCapacity * series))
       /\ (expected_voltage = 48 /\ SizedVoltage = 3200 /\ SizedCapacity = 10000
             /\ energy_required_kwh = 5000)
          => /\ series = 15
             /\ parallel = 2
             /\ total_cells = 30
             /\ parallel * SizedCapacity = 20000

\* C4: can_fit returns an orientation iff some axis permutation of the pack
\* triple lies within the usable envelope, and the listed orientations are
\* exactly the permutations of that triple.
C4_FitIffSomePermutation ==
    pc = "returned"
    => /\ (fit_dims # None) <=> SomeOrientationFits(cell, series, parallel)
       /\ LET listed == volume_configurations(cell, series, parallel)
              t      == PackTriple(cell, series, parallel)
          IN  /\ Len(listed) = 6
              /\ {listed[k] : k \in 1..6} =
                    {<<t[o[1]], t[o[2]], t[o[3]]>> : o \in AxisOrders}

\* C4 witness: a fit found although the first listed orientation does not fit.
C4_Witness ==
    /\ pc = "returned"
    /\ fit_dims # None
    /\ ~Within(volume_configurations(cell, series, parallel)[1])

\* C5: a row whose nominal voltage, capacity or a used dimension is
\* non-positive (missing values coerced to 0) is never selected.
C5_InvalidRowNeverSelected ==
    best_cell # None
    => /\ Coerce(best_cell.Nominal_Voltage) > 0
       /\ Coerce(best_cell.Cell_Capacity) > 0
       /\ Coerce(best_cell.Diameter_Length) > 0
       /\ Coerce(best_cell.Cell_height) > 0
       /\ best_cell.Shape # "Cylindrical" => Coerce(best_cell.Third_dimension) > 0

\* C6: the loop walks the candidates in descending cycle life (missing
\* counted as 0) and stops at the first acceptable one: best_cell is that
\* candidate, none before it is acceptable, none after it is evaluated, and
\* no acceptable candidate has a greater cycle life.
C6_FirstAcceptableWins ==
    /\ pc \in {"loop", "report", "done"}
       => \A a, b \in 1..Len(candidate_cells) :
             a < b => Coerce(candidate_cells[a].Cycle_life)
                        >= Coerce(candidate_cells[b].Cycle_life)
    /\ \A k \in 1..Len(evaluated) : evaluated[k] <= idx
    /\ best_cell # None
       => /\ idx \in 1..Len(candidate_cells)
          /\ best_cell = candidate_cells[idx]
          /\ Acceptable(best_cell)
          /\ \A j \in 1..(idx - 1) : ~Acceptable(candidate_cells[j])
          /\ \A j \in 1..Len(candidate_cells) :
                Acceptable(candidate_cells[j])
                => Coerce(candidate_cells[j].Cycle_life) <= Coerce(best_cell.Cycle_life)

\* C6 witness: the run ended on the first candidate although a later one,
\* never evaluated, is acceptable too.
C6_Witness ==
    /\ pc = "done"
    /\ best_cell # None
    /\ idx = 1
    /\ Len(candidate_cells) > 1
    /\ Acceptable(candidate_cells[2])
    /\ evaluated = <<1>>

\* Positions of the table whose name contains the cell-type text.
NameMatched == {k \in 1..Len(df) : NameContains(df[k].Cell_Name, cell_type_input)}

\* The rows of the table at the positions of S, in table order.
RowsAt(S) == SelectSeq([k \in 1..Len(df) |-> <<k, df[k]>>], LAMBDA e : e[1] \in S)

\* The table filtered by exact chemistry match (all of it for "Any").
ChemistryMatched ==
    {k \in 1..Len(df) : cell_chemistry = "Any" \/ df[k].Chemistry = cell_chemistry}

C9_FirstListedOrientation ==
    pc = "returned"
    => LET listed == volume_configurations(cell, series, parallel)
           example == /\ cell.Shape = "Cylindrical"
                      /\ cell.Diameter_Length = <<21>>
                      /\ cell.Cell_height = <<70>>
                      /\ series = 15
                      /\ parallel = 2
       IN  /\ fit_dims # None
              => \E k \in 1..Len(listed) :
                    /\ fit_dims = listed[k]
                    /\ Within(listed[k])
                    /\ \A j \in 1..(k - 1) : ~Within(listed[j])
           /\ (example /\ usable_l = 400 /\ usable_b = 400 /\ usable_h = 100)
              => fit_dims = <<315, 42, 70>>
           /\ (example /\ usable_l = 100 /\ usable_b = 100 /\ usable_h = 100)
              => fit_dims = None

\* C9 witness: the worked example, where a later orientation fits as well.
C9_Witness ==
    /\ pc = "returned"
    /\ fit_dims = <<315, 42, 70>>
    /\ usable_l = 400 /\ usable_b = 400 /\ usable_h = 100
    /\ Within(<<42, 315, 70>>)

\* What C10 states apart from the pack voltage and capacity: the reported
\* counts are those the loop computes for best_cell, their product is the
\* total, and the orientation lies within the raw envelope less 10 mm.
ReportedCountsAndOrientation ==
    /\ pack_specs.Series = SeriesCount(expected_voltage, best_cell)
    /\ pack_specs.Parallel = ParallelCount(energy_required_kwh, expected_voltage, best_cell)
    /\ pack_specs.Series >= 1
    /\ pack_specs.Parallel >= 1
    /\ pack_specs.Total_Cells = pack_specs.Series * pack_specs.Parallel
    /\ pack_specs.Pack_Volume = fit_dims
    /\ fit_dims[1] <= avail_l - 10
    /\ fit_dims[2] <= avail_b - 10
    /\ fit_dims[3] <= avail_h - 10

\* C10 as stated: ... Pack Voltage = Series * nominal voltage and Pack
\* Capacity = Parallel * capacity (hundredths against mV and cAh).
C10_ReportedAsStated ==
    pack_specs # None
    => /\ ReportedCountsAndOrientation
       /\ pack_specs.Pack_Voltage * 10 = pack_specs.Series * Coerce(best_cell.Nominal_Voltage)
       /\ pack_specs.Pack_Capacity = pack_specs.Parallel * Coerce(best_cell.Cell_Capacity)

\* C10 amended: ... Pack Voltage is Series * nominal voltage rounded to two
\* decimals (within half a hundredth of it), and Pack Capacity likewise.
C10_ReportedRounded ==
    pack_specs # None
    => /\ ReportedCountsAndOrientation
       /\ LET exact == pack_specs.Series * Coerce(best_cell.Nominal_Voltage)
          IN  /\ 10 * pack_specs.Pack_Voltage - exact <= 5
              /\ exact - 10 * pack_specs.Pack_Voltage <= 5
       /\ pack_specs.Pack_Capacity = pack_specs.Parallel * Coerce(best_cell.Cell_Capacity)

\* C10 witness: a reported pack of several cells whose voltage was rounded.
C10_Witness ==
    /\ pack_specs # None
    /\ pack_specs.Series > 1
    /\ pack_specs.Pack_Voltage * 10 # pack_specs.Series * Coerce(best_cell.Nominal_Voltage)

=============================================================================
